---------------------------- MODULE Spec2Model ----------------------------
(***************************************************************************)
(* Model of scripts/build_ofiq.py: the OFIQ build orchestrator.            *)
(*                                                                         *)
(* One run of OFIQBuilder.run() is a sequential walk through seven stages. *)
(* The command line (argv), the tools installed on the machine (env) and   *)
(* the directories present in the working tree (fs) are the run's inputs;  *)
(* the outcome of every build subprocess is chosen when it is called.      *)
(* Every subprocess call and every filesystem access of the orchestrator   *)
(* is appended to log, in program order.                                   *)
(***************************************************************************)
EXTENDS Integers, Sequences, FiniteSets, TLC

VARIABLES
    argv,        \* the command line, as the options argparse sees
    env,         \* the tools installed: conan/cmake on PATH, conan fallback locations
    fs,          \* the set of paths that exist in the working tree
    self,        \* the attributes of the OFIQBuilder instance
    pc,          \* position of run() in its sequence of calls
    path_idx,    \* loop index of "for conan_path in conan_paths"
    exit_code,   \* process exit status, -1 while running
    log,         \* subprocess calls and filesystem accesses made so far
    diag,        \* tools reported with a "not found" line so far
    completed,   \* stages that returned normally, in order
    failed,      \* stage in which the run was aborted, 0 if none
    cause        \* why the run was aborted

vars == <<argv, env, fs, self, pc, path_idx, exit_code, log, diag,
          completed, failed, cause>>

---------------------------------------------------------------------------
(* Command-line domain: the two legal values of each choice plus one value *)
(* argparse rejects.                                                       *)
Archs == {"x64", "x86", "arm64"}
Compilers == {16, 17, 18}

ArchChoices == {"x64", "x86"}
CompilerChoices == {16, 17}

Argv == [arch : Archs, compiler : Compilers, debug : BOOLEAN,
         no_conan : BOOLEAN, no_download : BOOLEAN, skip_deps : BOOLEAN,
         help : BOOLEAN]

ValidArgs(a) == a.arch \in ArchChoices /\ a.compiler \in CompilerChoices

---------------------------------------------------------------------------
(* Paths, relative to root_dir unless absolute.                            *)
BuildDir == "build/build_win"
BuildParent == "build"
ConanDir == "build/conan"
OpenCVDir == "extern/opencv-4.5.5"
GTestDir == "extern/googletest"
OnnxDir == "extern/onnxruntime"
OnnxPrebuilt == "extern/onnxruntime-win-x64-1.17.3"
(* Variant: the OpenCV source tree itself is taken for its build directory. *)
OpenCVBuildDir_SourceTree == "extern/opencv-4.5.5"

OpenCVBuildDir == "extern/opencv-4.5.5/build"

conan_paths == << "C:\\tools\\conan-2.21.0-windows-x86_64\\conan.exe",
                  "C:\\Program Files\\Conan\\conan.exe",
                  "C:\\conan\\conan.exe" >>

(* Variant: the Debug case of the bin directory is left out.               *)
InstallBinDir_ReleaseOnly(s) == s.install_dir \o "/Release/bin"

InstallBinDir(s) == s.install_dir \o "/" \o s.config \o "/bin"
OfiqLibPath(s) == InstallBinDir(s) \o "/ofiq_lib.dll"
SampleAppPath(s) == InstallBinDir(s) \o "/OFIQSampleApp.exe"

---------------------------------------------------------------------------
(* OFIQBuilder.__init__                                                    *)
InitSelf ==
    [ install_dir       |-> "install_x86_64",
      architecture      |-> "x64",
      compiler_version  |-> 16,
      use_conan         |-> TRUE,
      download          |-> TRUE,
      config            |-> "Release",
      vs_version        |-> "vc16",
      generator         |-> "Visual Studio 16 2019",
      compiler_flags    |-> "",
      conan_set_arch    |-> "",
      onnxruntime_flags |-> "",
      set_architecture  |-> "-A x64",
      skip_deps         |-> "unset",
      conan_path        |-> "unset" ]

(* Variant: the x86 branch keeps the x64 install directory.                *)
ArchSettings_SameInstallDir(arch) ==
    IF arch = "x86"
    THEN [ conan_set_arch    |-> "-s:a arch=x86",
           install_dir       |-> "install_x86_64",
           onnxruntime_flags |-> "--x86",
           set_architecture  |-> "-A Win32" ]
    ELSE [ conan_set_arch    |-> "",
           install_dir       |-> "install_x86_64",
           onnxruntime_flags |-> "",
           set_architecture  |-> "-A x64" ]

(* setup_environment: the fields derived from architecture and compiler.   *)
ArchSettings(arch) ==
    IF arch = "x86"
    THEN [ conan_set_arch    |-> "-s:a arch=x86",
           install_dir       |-> "install_x86",
           onnxruntime_flags |-> "--x86",
           set_architecture  |-> "-A Win32" ]
    ELSE [ conan_set_arch    |-> "",
           install_dir       |-> "install_x86_64",
           onnxruntime_flags |-> "",
           set_architecture  |-> "-A x64" ]

CompilerSettings(ver) ==
    IF ver = 16
    THEN [ generator      |-> "Visual Studio 16 2019",
           compiler_flags |-> "",
           vs_version     |-> "vc16" ]
    ELSE [ generator      |-> "Visual Studio 17 2022",
           compiler_flags |-> "-s:a compiler.version=193",
           vs_version     |-> "vc17" ]


(* Both settings together, as setup_environment leaves them.               *)
Derived(arch, ver) ==
    [ conan_set_arch    |-> ArchSettings(arch).conan_set_arch,
      install_dir       |-> ArchSettings(arch).install_dir,
      onnxruntime_flags |-> ArchSettings(arch).onnxruntime_flags,
      set_architecture  |-> ArchSettings(arch).set_architecture,
      generator         |-> CompilerSettings(ver).generator,
      compiler_flags    |-> CompilerSettings(ver).compiler_flags,
      vs_version        |-> CompilerSettings(ver).vs_version ]

---------------------------------------------------------------------------
(* The machine the script runs on.                                         *)
(* A tool looked up on PATH answers its version query ("ok"), answers with *)
(* a non-zero status ("error": CalledProcessError) or is not there         *)
(* ("notfound": FileNotFoundError).  A fallback location holds no file     *)
(* ("absent"), a file whose version query fails ("broken") or a working    *)
(* executable ("ok").                                                      *)
PathStates == {"ok", "error", "notfound"}
FallbackStates == {"absent", "broken", "ok"}
FallbackIdx == 1..Len(conan_paths)

(* A run that argparse ends never looks at the machine; a from-source run  *)
(* never looks at conan or build/conan; a conan run never looks at         *)
(* extern/.  What a run cannot look at is fixed to one value.              *)
ReachesPrerequisites(a) == ValidArgs(a) /\ ~a.help
LooksForConan(a) == ReachesPrerequisites(a) /\ ~a.no_conan
LooksAtExtern(a) == ReachesPrerequisites(a) /\ a.no_conan

EnvFor(a) ==
    [ conan    : IF LooksForConan(a) THEN PathStates ELSE {"notfound"},
      fallback : IF LooksForConan(a) THEN [FallbackIdx -> FallbackStates]
                 ELSE {[i \in FallbackIdx |-> "absent"]},
      cmake    : IF ReachesPrerequisites(a) THEN {"ok", "notfound"} ELSE {"ok"} ]

TreeClosed(s) ==
    /\ OpenCVBuildDir \in s => OpenCVDir \in s
    /\ BuildDir \in s => BuildParent \in s
    /\ ConanDir \in s => BuildParent \in s

FsFor(a) ==
    LET paths == (IF ReachesPrerequisites(a) THEN {BuildDir, BuildParent} ELSE {})
                 \cup (IF LooksForConan(a) THEN {ConanDir} ELSE {})
                 \cup (IF LooksAtExtern(a)
                       THEN {OpenCVDir, GTestDir, OnnxDir, OnnxPrebuilt, OpenCVBuildDir}
                       ELSE {})
    IN  {s \in SUBSET paths : TreeClosed(s)}

Init ==
    /\ argv \in Argv
    /\ env \in EnvFor(argv)
    /\ fs \in FsFor(argv)
    /\ self = InitSelf
    /\ pc = "parse"
    /\ path_idx = 1
    /\ exit_code = -1
    /\ log = << >>
    /\ diag = {}
    /\ completed = << >>
    /\ failed = 0
    /\ cause = "none"

---------------------------------------------------------------------------
(* Helpers shared by the stages.                                           *)
Stages == 1..7

Entry(stg, kind, target, cwd, args, rc) ==
    [ stage |-> stg, kind |-> kind, target |-> target, cwd |-> cwd,
      args |-> args, rc |-> rc ]

FsOp(stg, kind, path) == Entry(stg, kind, path, "", << >>, "ok")

(* shutil.rmtree(d): d and everything below it.                            *)
Below(d) == IF d = OpenCVDir THEN {OpenCVDir, OpenCVBuildDir}
            ELSE IF d = BuildParent THEN {BuildParent, BuildDir, ConanDir}
            ELSE {d}

(* "if d.exists(): shutil.rmtree(d)" as log entries and as the new tree.   *)
CleanOps(stg, d, tree) ==
    IF d \in tree THEN << FsOp(stg, "exists", d), FsOp(stg, "rmtree", d) >>
    ELSE << FsOp(stg, "exists", d) >>

CleanTree(d, tree) == tree \ Below(d)

(* Variant: the interrupt handler exits with 0.                            *)
RunExcept_InterruptZero(exc) ==
    CASE exc = "KeyboardInterrupt" -> 0
      [] exc = "Exception"         -> 1

(* The except clauses of run(): exit status for an exception that reaches  *)
(* them.  sys.exit raises SystemExit, which neither clause catches.        *)
RunExcept(exc) ==
    CASE exc = "KeyboardInterrupt" -> 1
      [] exc = "Exception"         -> 1

Abort(stg, why, code) ==
    /\ pc' = "done"
    /\ exit_code' = code
    /\ failed' = stg
    /\ cause' = why

(* What a build subprocess can do: return 0, return non-zero               *)
(* (CalledProcessError), fail to start (OSError) or be interrupted.        *)
Outcomes == {"ok", "fail", "oserror", "interrupt"}

(* Variant: the CalledProcessError handler reports the failure and does    *)
(* not exit.                                                               *)
AfterCall_NoExit(stg, out, next) ==
    CASE out = "ok"        -> /\ pc' = next
                              /\ UNCHANGED <<exit_code, failed, cause>>
      [] out = "fail"      -> /\ pc' = next
                              /\ failed' = stg
                              /\ cause' = "subprocess"
                              /\ UNCHANGED exit_code
      [] out = "oserror"   -> Abort(stg, "exception", RunExcept("Exception"))
      [] out = "interrupt" -> Abort(stg, "interrupt", RunExcept("KeyboardInterrupt"))

(* subprocess.run(cmd, check=True) inside                                  *)
(* "try: ... except subprocess.CalledProcessError: sys.exit(1)".           *)
AfterCall(stg, out, next) ==
    CASE out = "ok"        -> /\ pc' = next
                              /\ UNCHANGED <<exit_code, failed, cause>>
      [] out = "fail"      -> Abort(stg, "subprocess", 1)
      [] out = "oserror"   -> Abort(stg, "exception", RunExcept("Exception"))
      [] out = "interrupt" -> Abort(stg, "interrupt", RunExcept("KeyboardInterrupt"))


Done(stg) == Append(completed, stg)

---------------------------------------------------------------------------
(* Stage 1: parse_arguments.                                               *)
(* argparse reads the options left to right: --help prints the usage and   *)
(* exits with 0, a value outside the choices exits with 2, whichever comes *)
(* first on the command line.                                              *)
(* Variant: the options are declared without choices.                      *)
ArgparseExit_NoChoices(a) == IF a.help THEN {0} ELSE {}

ArgparseExit(a) ==
    (IF a.help THEN {0} ELSE {}) \cup (IF ValidArgs(a) THEN {} ELSE {2})

ParseArguments ==
    /\ pc = "parse"
    /\ IF ArgparseExit(argv) # {}
       THEN /\ \E code \in ArgparseExit(argv) :
                 /\ pc' = "done"
                 /\ exit_code' = code
                 /\ failed' = IF code = 0 THEN 0 ELSE 1
                 /\ cause' = IF code = 0 THEN "help" ELSE "usage"
            /\ UNCHANGED <<self, completed>>
       ELSE /\ self' = [self EXCEPT !.architecture = argv.arch,
                                    !.compiler_version = argv.compiler,
                                    !.config = IF argv.debug THEN "Debug" ELSE "Release",
                                    !.use_conan = ~argv.no_conan,
                                    !.download = ~argv.no_download,
                                    !.skip_deps = argv.skip_deps]
            /\ pc' = "setup"
            /\ completed' = Done(1)
            /\ UNCHANGED <<exit_code, failed, cause>>
    /\ UNCHANGED <<argv, env, fs, path_idx, log, diag>>

(* Variant: the compiler branch does not set vs_version.                   *)
SetupEnvironment_NoVersionTag ==
    /\ pc = "setup"
    /\ LET a == ArchSettings(self.architecture)
           c == CompilerSettings(self.compiler_version)
       IN  self' = [self EXCEPT !.conan_set_arch = a.conan_set_arch,
                                !.install_dir = a.install_dir,
                                !.onnxruntime_flags = a.onnxruntime_flags,
                                !.set_architecture = a.set_architecture,
                                !.generator = c.generator,
                                !.compiler_flags = c.compiler_flags]
    /\ pc' = "prereq"
    /\ completed' = Done(2)
    /\ UNCHANGED <<argv, env, fs, path_idx, exit_code, log, diag, failed, cause>>

(* Stage 2: setup_environment.                                             *)
SetupEnvironment ==
    /\ pc = "setup"
    /\ LET a == ArchSettings(self.architecture)
           c == CompilerSettings(self.compiler_version)
       IN  self' = [self EXCEPT !.conan_set_arch = a.conan_set_arch,
                                !.install_dir = a.install_dir,
                                !.onnxruntime_flags = a.onnxruntime_flags,
                                !.set_architecture = a.set_architecture,
                                !.generator = c.generator,
                                !.compiler_flags = c.compiler_flags,
                                !.vs_version = c.vs_version]
    /\ pc' = "prereq"
    /\ completed' = Done(2)
    /\ UNCHANGED <<argv, env, fs, path_idx, exit_code, log, diag, failed, cause>>

---------------------------------------------------------------------------
(* Stage 3: check_prerequisites.                                           *)
(* Variant: conan is not looked for when the dependency stage is skipped.  *)
ConanRequired_UnlessSkipped == self.use_conan /\ ~self.skip_deps

(* "if self.use_conan:" - conan is looked for whatever --skip-deps says.   *)
ConanRequired == self.use_conan

VersionQuery(tool, rc) == Entry(3, "run", tool, "", << "--version" >>, rc)

(* Variant: a bare "except:" takes the interrupt for a missing conan.      *)
ProbeConanOnPath_BareExcept ==
    /\ pc = "prereq"
    /\ ConanRequired
    /\ \E interrupted \in BOOLEAN :
         IF interrupted
         THEN /\ log' = Append(log, VersionQuery("conan", "interrupt"))
              /\ pc' = "prereq_fallback"
              /\ UNCHANGED <<self, exit_code, failed, cause>>
         ELSE /\ log' = Append(log, VersionQuery("conan", env.conan))
              /\ IF env.conan = "ok"
                 THEN /\ self' = [self EXCEPT !.conan_path = "conan"]
                      /\ pc' = "prereq_cmake"
                 ELSE /\ pc' = "prereq_fallback"
                      /\ UNCHANGED self
              /\ UNCHANGED <<exit_code, failed, cause>>
    /\ path_idx' = 1
    /\ UNCHANGED <<argv, env, fs, diag, completed>>

(* subprocess.run(["conan", "--version"]) on the search path.              *)
ProbeConanOnPath ==
    /\ pc = "prereq"
    /\ ConanRequired
    /\ \E interrupted \in BOOLEAN :
         IF interrupted
         THEN /\ log' = Append(log, VersionQuery("conan", "interrupt"))
              /\ Abort(3, "interrupt", RunExcept("KeyboardInterrupt"))
              /\ UNCHANGED self
         ELSE /\ log' = Append(log, VersionQuery("conan", env.conan))
              /\ IF env.conan = "ok"
                 THEN /\ self' = [self EXCEPT !.conan_path = "conan"]
                      /\ pc' = "prereq_cmake"
                 ELSE /\ pc' = "prereq_fallback"
                      /\ UNCHANGED self
              /\ UNCHANGED <<exit_code, failed, cause>>
    /\ path_idx' = 1
    /\ UNCHANGED <<argv, env, fs, diag, completed>>

(* One iteration of "for conan_path in conan_paths", and the               *)
(* "if not conan_found" that follows the last one.                         *)
NotFound(tool) ==
    /\ diag' = diag \cup {tool}
    /\ Abort(3, "prereq", 1)

(* Variant: "if not conan_found: sys.exit(1)" is missing.                   *)
NextFallback_NoExit ==
    /\ IF path_idx < Len(conan_paths)
       THEN path_idx' = path_idx + 1 /\ UNCHANGED pc
       ELSE pc' = "prereq_cmake" /\ UNCHANGED path_idx
    /\ UNCHANGED <<exit_code, failed, cause, diag>>

NextFallback ==
    IF path_idx < Len(conan_paths)
    THEN /\ path_idx' = path_idx + 1
         /\ UNCHANGED <<pc, exit_code, failed, cause, diag>>
    ELSE /\ NotFound("conan")
         /\ UNCHANGED path_idx

(* Variant: the loop goes on after a location has answered.                *)
Found_NoBreak ==
    /\ IF path_idx < Len(conan_paths)
       THEN path_idx' = path_idx + 1 /\ UNCHANGED pc
       ELSE pc' = "prereq_cmake" /\ UNCHANGED path_idx
    /\ UNCHANGED <<exit_code, failed, cause, diag>>

(* "conan_found = True; break".                                            *)
Found ==
    /\ pc' = "prereq_cmake"
    /\ UNCHANGED <<path_idx, exit_code, failed, cause, diag>>

ProbeConanFallback ==
    /\ pc = "prereq_fallback"
    /\ LET p == conan_paths[path_idx]
           there == FsOp(3, "exists", p)
       IN  IF env.fallback[path_idx] = "absent"
           THEN /\ log' = Append(log, there)
                /\ NextFallback
                /\ UNCHANGED self
           ELSE /\ self' = [self EXCEPT !.conan_path = p]
                /\ \E interrupted \in BOOLEAN :
                     IF interrupted
                     THEN /\ log' = log \o << there, VersionQuery(p, "interrupt") >>
                          /\ Abort(3, "interrupt", RunExcept("KeyboardInterrupt"))
                          /\ UNCHANGED <<path_idx, diag>>
                     ELSE IF env.fallback[path_idx] = "ok"
                     THEN /\ log' = log \o << there, VersionQuery(p, "ok") >>
                          /\ Found
                     ELSE /\ log' = log \o << there, VersionQuery(p, "error") >>
                          /\ NextFallback
    /\ UNCHANGED <<argv, env, fs, completed>>

(* "for tool in required_tools" with required_tools = ["cmake"], then      *)
(* "if missing_tools: sys.exit(1)".                                        *)
ProbeRequiredTools ==
    /\ \/ pc = "prereq_cmake"
       \/ pc = "prereq" /\ ~ConanRequired
    /\ \E interrupted \in BOOLEAN :
         IF interrupted
         THEN /\ log' = Append(log, VersionQuery("cmake", "interrupt"))
              /\ Abort(3, "interrupt", RunExcept("KeyboardInterrupt"))
              /\ UNCHANGED <<diag, completed>>
         ELSE /\ log' = Append(log, VersionQuery("cmake", env.cmake))
              /\ IF env.cmake = "ok"
                 THEN /\ pc' = "deps"
                      /\ completed' = Done(3)
                      /\ UNCHANGED <<exit_code, failed, cause, diag>>
                 ELSE /\ NotFound("cmake")
                      /\ UNCHANGED completed
    /\ UNCHANGED <<argv, env, fs, self, path_idx>>


---------------------------------------------------------------------------
(* Stage 4: build_dependencies.                                            *)
(* Variant: --skip-deps honoured on the conan path only.                   *)
SkipDeps_ConanOnly == self.skip_deps /\ self.use_conan

(* "if self.skip_deps: return" comes before the choice of strategy.        *)
SkipDeps == self.skip_deps

SkipDependencies ==
    /\ pc = "deps"
    /\ SkipDeps
    /\ pc' = "configure"
    /\ completed' = Done(4)
    /\ UNCHANGED <<argv, env, fs, self, path_idx, exit_code, log, diag, failed, cause>>

(* _build_with_conan: clean build/conan, then "conan install".  A          *)
(* successful install writes its output folder, build/conan.               *)
ConanProfile(s) ==
    IF s.config = "Release" THEN "conan/conan_profile_release.txt"
    ELSE "conan/conan_profile_debug.txt"

ConanInstall(s, rc) ==
    Entry(4, "run", s.conan_path, ".",
          << "install", ConanProfile(s), s.compiler_flags, s.conan_set_arch >>, rc)

BuildWithConan ==
    /\ pc = "deps"
    /\ ~SkipDeps
    /\ self.use_conan
    /\ \E out \in Outcomes :
         /\ log' = log \o CleanOps(4, ConanDir, fs) \o << ConanInstall(self, out) >>
         /\ fs' = IF out = "ok" THEN CleanTree(ConanDir, fs) \cup {BuildParent, ConanDir}
                  ELSE CleanTree(ConanDir, fs)
         /\ AfterCall(4, out, "configure")
         /\ completed' = IF out = "ok" THEN Done(4) ELSE completed
    /\ UNCHANGED <<argv, env, self, path_idx, diag>>

(* _build_from_source, first half: which dependency trees are there.       *)
(* "onnx_dir.exists() or onnx_prebuilt.exists()" looks at the prebuilt     *)
(* tree only when extern/onnxruntime is absent.                            *)
MissingDeps(tree) ==
    (IF OpenCVDir \in tree THEN {} ELSE {"OpenCV"})
    \cup (IF GTestDir \in tree THEN {} ELSE {"GoogleTest"})
    \cup (IF OnnxDir \in tree \/ OnnxPrebuilt \in tree THEN {} ELSE {"ONNX Runtime"})

TreeChecks(tree) ==
    << FsOp(4, "exists", OpenCVDir), FsOp(4, "exists", GTestDir),
       FsOp(4, "exists", OnnxDir) >>
    \o (IF OnnxDir \in tree THEN << >> ELSE << FsOp(4, "exists", OnnxPrebuilt) >>)

CheckSourceTrees ==
    /\ pc = "deps"
    /\ ~SkipDeps
    /\ ~self.use_conan
    /\ log' = log \o TreeChecks(fs)
    /\ IF MissingDeps(fs) # {}
       THEN Abort(4, "depmissing", 1)
       ELSE /\ pc' = "opencv_configure"
            /\ UNCHANGED <<exit_code, failed, cause>>
    /\ UNCHANGED <<argv, env, fs, self, path_idx, diag, completed>>

(* _build_from_source, second half: five commands in three try blocks.     *)
(* A command whose working directory does not exist cannot be started.     *)
Startable(cwd, tree) == IF cwd \in tree THEN Outcomes ELSE {"oserror"}

(* Variant: the command is run without check=True, its status ignored.     *)
SourceCommand_Unchecked(at, prog, cwd, args, next, stageDone) ==
    /\ pc = at
    /\ \E out \in Startable(cwd, fs) :
         /\ log' = Append(log, Entry(4, "run", prog, cwd, args, out))
         /\ AfterCall(4, IF out = "fail" THEN "ok" ELSE out, next)
         /\ completed' = IF out \in {"ok", "fail"} /\ stageDone THEN Done(4)
                         ELSE completed
    /\ UNCHANGED <<argv, env, fs, self, path_idx, diag>>

SourceCommand(at, prog, cwd, args, next, stageDone) ==
    /\ pc = at
    /\ \E out \in Startable(cwd, fs) :
         /\ log' = Append(log, Entry(4, "run", prog, cwd, args, out))
         /\ AfterCall(4, out, next)
         /\ completed' = IF out = "ok" /\ stageDone THEN Done(4) ELSE completed
    /\ UNCHANGED <<argv, env, fs, self, path_idx, diag>>

OpenCVConfigure ==
    /\ pc = "opencv_configure"
    /\ \E out \in Startable(OpenCVDir, fs) :
         /\ log' = log \o CleanOps(4, OpenCVBuildDir, fs)
                       \o << Entry(4, "run", "cmake", OpenCVDir,
                                   << "configure", "OpenCV", self.generator,
                                      self.set_architecture >>, out) >>
         /\ fs' = IF out = "ok" THEN fs \cup {OpenCVBuildDir}
                  ELSE CleanTree(OpenCVBuildDir, fs)
         /\ AfterCall(4, out, "opencv_build")
    /\ UNCHANGED <<argv, env, self, path_idx, diag, completed>>

OpenCVBuild ==
    SourceCommand("opencv_build", "cmake", OpenCVDir,
                  << "build", "OpenCV", self.config >>, "gtest_configure", FALSE)

GTestConfigure ==
    SourceCommand("gtest_configure", "cmake", GTestDir,
                  << "configure", "GoogleTest", self.generator,
                     self.set_architecture >>, "gtest_build", FALSE)

GTestBuild ==
    SourceCommand("gtest_build", "cmake", GTestDir,
                  << "build", "GoogleTest", self.config >>, "onnx_build", FALSE)

OnnxBuild ==
    SourceCommand("onnx_build", "build.bat", OnnxDir,
                  << "build", "ONNX Runtime", "Visual Studio 17 2022",
                     self.config, self.onnxruntime_flags >>, "configure", TRUE)

---------------------------------------------------------------------------
(* Stage 5: configure_cmake.  Clear build/build_win, create it again with  *)
(* its parents, run the generator.                                         *)
Generate(s, rc) ==
    Entry(5, "run", "cmake", ".",
          << "configure", "OFIQ", s.generator, s.set_architecture, s.install_dir,
             IF s.use_conan THEN "USE_CONAN=ON" ELSE "USE_CONAN=OFF",
             IF s.use_conan THEN "DOWNLOAD_ONNX=OFF" ELSE "DOWNLOAD_ONNX=ON",
             s.config, s.architecture,
             IF s.download THEN "DOWNLOAD=ON" ELSE "DOWNLOAD=OFF",
             s.vs_version >>, rc)

(* Variant: an existing build directory is kept (mkdir exist_ok only).     *)
ConfigureCmake_KeepOld ==
    /\ pc = "configure"
    /\ \E out \in Outcomes :
         /\ log' = log \o << FsOp(5, "exists", BuildDir),
                              FsOp(5, "mkdir", BuildDir), Generate(self, out) >>
         /\ AfterCall(5, out, "build")
         /\ completed' = IF out = "ok" THEN Done(5) ELSE completed
    /\ fs' = fs \cup {BuildParent, BuildDir}
    /\ UNCHANGED <<argv, env, self, path_idx, diag>>

(* Variant: a failed generator run removes the build directory again.      *)
ConfigureCmake_CleanupOnFailure ==
    /\ pc = "configure"
    /\ \E out \in Outcomes :
         /\ log' = log \o CleanOps(5, BuildDir, fs)
                       \o << FsOp(5, "mkdir", BuildDir), Generate(self, out) >>
         /\ AfterCall(5, out, "build")
         /\ completed' = IF out = "ok" THEN Done(5) ELSE completed
         /\ fs' = IF out = "ok" THEN CleanTree(BuildDir, fs) \cup {BuildParent, BuildDir}
                  ELSE CleanTree(BuildDir, fs) \cup {BuildParent}
    /\ UNCHANGED <<argv, env, self, path_idx, diag>>

ConfigureCmake ==
    /\ pc = "configure"
    /\ \E out \in Outcomes :
         /\ log' = log \o CleanOps(5, BuildDir, fs)
                       \o << FsOp(5, "mkdir", BuildDir), Generate(self, out) >>
         /\ AfterCall(5, out, "build")
         /\ completed' = IF out = "ok" THEN Done(5) ELSE completed
    /\ fs' = CleanTree(BuildDir, fs) \cup {BuildParent, BuildDir}
    /\ UNCHANGED <<argv, env, self, path_idx, diag>>

(* Stage 6: build_project.  What a successful "install" target leaves in   *)
(* the directory verify_build looks at is the build's business.            *)
Artifacts(s) ==
    {a \in SUBSET {InstallBinDir(s), OfiqLibPath(s), SampleAppPath(s)} :
        a # {} => InstallBinDir(s) \in a}

BuildProject ==
    /\ pc = "build"
    /\ \E out \in Outcomes :
         /\ log' = Append(log, Entry(6, "run", "cmake", ".",
                                     << "build", "OFIQ", BuildDir, self.config >>, out))
         /\ AfterCall(6, out, "verify")
         /\ completed' = IF out = "ok" THEN Done(6) ELSE completed
         /\ IF out = "ok"
            THEN \E a \in Artifacts(self) : fs' = fs \cup a
            ELSE fs' = fs
    /\ UNCHANGED <<argv, env, self, path_idx, diag>>

(* Stage 7: verify_build, and the return of run() that follows it.         *)
(* Variant: a missing sample executable is fatal too.                      *)
LibFatal_Either(lib, app) == ~lib \/ ~app

(* "if ofiq_lib_path.exists(): ... else: sys.exit(1)"; the sample          *)
(* executable only gets a message.                                         *)
LibFatal(lib, app) == ~lib

VerifyOps(s, tree) ==
    IF OfiqLibPath(s) \in tree
    THEN << FsOp(7, "exists", OfiqLibPath(s)), FsOp(7, "stat", OfiqLibPath(s)),
            FsOp(7, "exists", SampleAppPath(s)) >>
    ELSE << FsOp(7, "exists", OfiqLibPath(s)), FsOp(7, "exists", InstallBinDir(s)) >>
         \o (IF InstallBinDir(s) \in tree
             THEN << FsOp(7, "iterdir", InstallBinDir(s)) >> ELSE << >>)

VerifyBuild ==
    /\ pc = "verify"
    /\ log' = log \o VerifyOps(self, fs)
    /\ IF LibFatal(OfiqLibPath(self) \in fs, SampleAppPath(self) \in fs)
       THEN /\ Abort(7, "artifact", 1)
            /\ UNCHANGED completed
       ELSE /\ pc' = "done"
            /\ exit_code' = 0
            /\ completed' = Done(7)
            /\ UNCHANGED <<failed, cause>>
    /\ UNCHANGED <<argv, env, fs, self, path_idx, diag>>

---------------------------------------------------------------------------
Next ==
    \/ ParseArguments
    \/ SetupEnvironment
    \/ ProbeConanOnPath
    \/ ProbeConanFallback
    \/ ProbeRequiredTools
    \/ SkipDependencies
    \/ BuildWithConan
    \/ CheckSourceTrees
    \/ OpenCVConfigure
    \/ OpenCVBuild
    \/ GTestConfigure
    \/ GTestBuild
    \/ OnnxBuild
    \/ ConfigureCmake
    \/ BuildProject
    \/ VerifyBuild

Spec == Init /\ [][Next]_vars


---------------------------------------------------------------------------
(* Vocabulary of the properties.                                           *)
Range(q) == {q[i] : i \in DOMAIN q}
StageOps(k) == {e \in Range(log) : e.stage = k}
AllStages == << 1, 2, 3, 4, 5, 6, 7 >>
Parsed == Len(completed) >= 1
Terminated == pc = "done"
ConanUnavailable ==
    env.conan # "ok" /\ \A i \in FallbackIdx : env.fallback[i] # "ok"

(* C1: the stages run in the order 1..7; an external operation of a stage  *)
(* is in the log only if every earlier stage returned normally; once a     *)
(* stage has failed the run is over with a non-zero exit status and the    *)
(* log holds no operation of a later stage.                                *)
C1_StageOrder ==
    /\ \A i \in DOMAIN completed : completed[i] = i
    /\ \A i, j \in DOMAIN log : i < j => log[i].stage <= log[j].stage
    /\ \A e \in Range(log) : \A k \in 1..(e.stage - 1) : k \in Range(completed)
    /\ failed # 0 =>
         /\ Terminated
         /\ exit_code > 0
         /\ failed \notin Range(completed)
         /\ \A e \in Range(log) : e.stage <= failed

C1_Witness ==
    /\ failed = 5
    /\ StageOps(3) # {}
    /\ StageOps(4) # {}
    /\ StageOps(5) # {}

(* C2, as claimed: exit status 0 only after all seven stages.              *)
C2_ZeroOnlyAfterSevenStages ==
    Terminated /\ exit_code = 0 => completed = AllStages

(* C2, amended: exit status 0 only after all seven stages or when --help   *)
(* ended the run inside argument parsing; every aborted run exits with a   *)
(* non-zero status.                                                        *)
C2_ZeroOnlySuccessOrHelp ==
    Terminated =>
      /\ exit_code >= 0
      /\ exit_code = 0 => \/ completed = AllStages
                          \/ argv.help /\ completed = << >> /\ log = << >>
      /\ cause \in {"usage", "prereq", "depmissing", "subprocess", "artifact",
                    "interrupt", "exception"} => exit_code # 0

C2_Witness ==
    /\ Terminated
    /\ exit_code = 0
    /\ completed = AllStages
    /\ ~argv.help

(* C3: with the conan strategy selected and conan runnable from no         *)
(* location, the run never gets past the prerequisite check: build/build_win *)
(* is not cleared, the generator is not run, and the exit status is        *)
(* non-zero, also under --skip-deps.                                       *)
C3_NoConanNoGeneration ==
    Parsed /\ self.use_conan /\ ConanUnavailable =>
      /\ pc \in {"setup", "prereq", "prereq_fallback", "done"}
      /\ \A e \in Range(log) : e.stage <= 3
      /\ Terminated => exit_code > 0

C3_Witness ==
    /\ Terminated
    /\ Parsed
    /\ self.use_conan
    /\ self.skip_deps
    /\ ConanUnavailable
    /\ cause = "prereq"
    /\ exit_code = 1


(* C4: under --skip-deps the dependency stage does nothing, for either     *)
(* strategy: no existence check of a dependency tree, no removal of        *)
(* build/conan, no conan call, no dependency build; once the prerequisites *)
(* have passed the run goes on to build-file generation.                   *)
C4_SkipDepsDoesNothing ==
    Parsed /\ self.skip_deps =>
      /\ StageOps(4) = {}
      /\ failed # 4
      /\ pc \notin {"opencv_configure", "opencv_build", "gtest_configure",
                    "gtest_build", "onnx_build"}
      /\ Len(completed) >= 3 /\ pc # "deps" =>
           /\ Len(completed) >= 4
           /\ pc = "configure" \/ StageOps(5) # {}

C4_Witness ==
    /\ Parsed
    /\ self.skip_deps
    /\ ~self.use_conan
    /\ "extern/opencv-4.5.5" \notin fs
    /\ \E e \in StageOps(5) : e.kind = "run"

(* C5: from source without --skip-deps, when one of the three trees        *)
(* extern/opencv-4.5.5, extern/googletest, extern/onnxruntime is absent    *)
(* the run aborts with a non-zero status before any dependency build       *)
(* command and before any directory removal.                               *)
SourceTrees == {"extern/opencv-4.5.5", "extern/googletest", "extern/onnxruntime"}

C5_MissingTreeAbortsFirst ==
    Parsed /\ ~self.use_conan /\ ~self.skip_deps /\ ~(SourceTrees \subseteq fs) =>
      /\ \A e \in Range(log) : e.stage >= 4 => e.kind = "exists"
      /\ Terminated => exit_code > 0

(* C6: from source with the three trees present, the dependency commands   *)
(* run in the order OpenCV, GoogleTest, ONNX Runtime; a command runs only  *)
(* after every command before it returned success; the first command that  *)
(* does not ends the run with a non-zero status, with no later dependency  *)
(* command and no build-file generation.                                   *)
DependencyOrder ==
    << <<"configure", "OpenCV">>, <<"build", "OpenCV">>,
       <<"configure", "GoogleTest">>, <<"build", "GoogleTest">>,
       <<"build", "ONNX Runtime">> >>

IsDepCommand(e) == e.stage = 4 /\ e.kind = "run"

C6_SourceBuildOrder ==
    Parsed /\ ~self.use_conan /\ ~self.skip_deps /\ SourceTrees \subseteq fs =>
      LET cmds == SelectSeq(log, IsDepCommand)
      IN  /\ Len(cmds) <= Len(DependencyOrder)
          /\ \A i \in DOMAIN cmds :
               /\ << cmds[i].args[1], cmds[i].args[2] >> = DependencyOrder[i]
               /\ i < Len(cmds) => cmds[i].rc = "ok"
          /\ (\E i \in DOMAIN cmds : cmds[i].rc # "ok") =>
               /\ Terminated
               /\ exit_code > 0
               /\ failed = 4
               /\ StageOps(5) = {}
          /\ StageOps(5) # {} => Len(cmds) = Len(DependencyOrder)

C6_Witness ==
    /\ Terminated
    /\ Parsed
    /\ ~self.use_conan
    /\ Len(SelectSeq(log, IsDepCommand)) = 4
    /\ log[Len(log)].rc = "fail"
    /\ exit_code = 1

(* C7: verification exits non-zero when ofiq_lib.dll is absent, whether or *)
(* not the bin directory exists, and exits 0 when ofiq_lib.dll is there,   *)
(* also when OFIQSampleApp.exe is not.                                     *)
C7_OnlyLibraryIsRequired ==
    Terminated /\ Len(completed) >= 6 =>
      IF OfiqLibPath(self) \in fs
      THEN exit_code = 0 /\ completed = AllStages /\ failed = 0
      ELSE exit_code > 0 /\ failed = 7 /\ cause = "artifact"

C7_Witness ==
    /\ Terminated
    /\ Len(completed) >= 6
    /\ OfiqLibPath(self) \in fs
    /\ SampleAppPath(self) \notin fs
    /\ exit_code = 0

(* C8, as claimed: switching x64 to x86 changes install_dir and            *)
(* set_architecture and no other field that setup_environment sets.        *)
OtherArch(arch) == IF arch = "x64" THEN "x86" ELSE "x64"

C8_OnlyTwoFieldsChange ==
    Len(completed) >= 2 =>
      LET o == Derived(OtherArch(self.architecture), self.compiler_version)
      IN  /\ o.install_dir # self.install_dir
          /\ o.set_architecture # self.set_architecture
          /\ o.conan_set_arch = self.conan_set_arch
          /\ o.onnxruntime_flags = self.onnxruntime_flags
          /\ o.generator = self.generator
          /\ o.compiler_flags = self.compiler_flags
          /\ o.vs_version = self.vs_version

(* C8, amended: switching x64 to x86 changes install_dir, set_architecture, *)
(* conan_set_arch and onnxruntime_flags, and leaves generator,             *)
(* compiler_flags and vs_version as they are.                              *)
C8_ArchFieldsChange ==
    Len(completed) >= 2 =>
      LET o == Derived(OtherArch(self.architecture), self.compiler_version)
      IN  /\ o.install_dir # self.install_dir
          /\ o.set_architecture # self.set_architecture
          /\ o.conan_set_arch # self.conan_set_arch
          /\ o.onnxruntime_flags # self.onnxruntime_flags
          /\ o.generator = self.generator
          /\ o.compiler_flags = self.compiler_flags
          /\ o.vs_version = self.vs_version

C8_Witness ==
    /\ Len(completed) >= 2
    /\ self.architecture = "x86"
    /\ self.compiler_version = 17
    /\ self.install_dir = "install_x86"

(* C9: a failed prerequisite check exits non-zero after reporting every    *)
(* required tool that is missing: conan (when the conan strategy is        *)
(* selected) and cmake, both when both are missing.                        *)
MissingTools ==
    (IF self.use_conan /\ ConanUnavailable THEN {"conan"} ELSE {})
    \cup (IF env.cmake # "ok" THEN {"cmake"} ELSE {})

C9_EveryMissingToolReported ==
    cause = "prereq" =>
      /\ exit_code > 0
      /\ MissingTools \subseteq diag

(* C10, as claimed: the orchestrator looks at, removes and creates only    *)
(* build/conan, build/build_win and the install directory.                 *)
FsKinds == {"exists", "rmtree", "mkdir", "stat", "iterdir"}
FsAccesses == {e \in Range(log) : e.kind \in FsKinds}

InstallPaths ==
    {d \o "/" \o c \o "/bin" \o f :
        d \in {"install_x86", "install_x86_64"}, c \in {"Release", "Debug"},
        f \in {"", "/ofiq_lib.dll", "/OFIQSampleApp.exe"}}

C10_OnlyThreeDirectories ==
    \A e \in FsAccesses :
        e.target \in {"build/conan", "build/build_win"} \cup InstallPaths

(* C10, amended: besides those, the orchestrator tests the existence of    *)
(* the three conan fallback executables and of the four trees under        *)
(* extern/, and removes extern/opencv-4.5.5/build; it removes nothing else *)
(* and creates only build/build_win (with its parent).                     *)
ProbedOnly ==
    Range(conan_paths)
    \cup {"extern/opencv-4.5.5", "extern/googletest", "extern/onnxruntime",
          "extern/onnxruntime-win-x64-1.17.3"}

C10_TouchedPaths ==
    \A e \in FsAccesses :
         /\ e.target \in {"build/conan", "build/build_win",
                          "extern/opencv-4.5.5/build"}
                         \cup InstallPaths \cup ProbedOnly
         /\ e.target \in ProbedOnly => e.kind = "exists"
         /\ e.kind = "rmtree" => e.target \in {"build/conan", "build/build_win",
                                               "extern/opencv-4.5.5/build"}
         /\ e.kind = "mkdir" => e.target = "build/build_win"
         /\ e.target \in InstallPaths => e.kind \in {"exists", "stat", "iterdir"}

C10_Witness ==
    /\ Terminated
    /\ completed = AllStages
    /\ \E e \in FsAccesses : e.kind = "rmtree" /\ e.target = "extern/opencv-4.5.5/build"
    /\ \E e \in FsAccesses : e.kind = "exists" /\ e.target = "extern/googletest"


(* C11: with every flag at its default the run uses conan, hands the       *)
(* generator install prefix install_x86_64, "-A x64" and Release, and on   *)
(* success verifies install_x86_64/Release/bin/ofiq_lib.dll; in every run  *)
(* the directory verified is <install-dir>/<build-type>/bin for the        *)
(* install-dir and build-type given to the generator and the build driver. *)
IsCommand(e, stg) == e.stage = stg /\ e.kind = "run"
GenerateCalls == {e \in Range(log) : IsCommand(e, 5)}

DefaultArgs ==
    /\ argv.arch = "x64"
    /\ argv.compiler = 16
    /\ ~argv.debug
    /\ ~argv.no_conan
    /\ ~argv.no_download
    /\ ~argv.skip_deps
    /\ ~argv.help

C11_VerifiedWhereInstalled ==
    /\ \A g \in GenerateCalls :
         /\ \A v \in StageOps(7) :
              v.target \in {g.args[5] \o "/" \o g.args[8] \o "/bin" \o f :
                              f \in {"", "/ofiq_lib.dll", "/OFIQSampleApp.exe"}}
         /\ \A b \in StageOps(6) : b.args[4] = g.args[8]
    /\ DefaultArgs =>
         /\ \A e \in StageOps(4) : e.kind = "run" => e.args[1] = "install"
         /\ \A g \in GenerateCalls :
              /\ g.args[4] = "-A x64"
              /\ g.args[5] = "install_x86_64"
              /\ g.args[6] = "USE_CONAN=ON"
              /\ g.args[8] = "Release"
         /\ completed = AllStages =>
              /\ \E e \in StageOps(4) : e.kind = "run"
              /\ \E v \in StageOps(7) :
                   /\ v.kind = "stat"
                   /\ v.target = "install_x86_64/Release/bin/ofiq_lib.dll"

C11_Witness ==
    /\ DefaultArgs
    /\ Terminated
    /\ completed = AllStages
    /\ exit_code = 0

(* C12, as claimed: a value outside the choices of --arch or --compiler    *)
(* ends the run with a non-zero status inside argument parsing, before any *)
(* probe, subprocess or directory operation.                               *)
C12_InvalidValueExitsNonZero ==
    ~ValidArgs(argv) =>
      /\ pc \in {"parse", "done"}
      /\ log = << >>
      /\ completed = << >>
      /\ Terminated => exit_code > 0

(* C12, amended: such a value ends the run inside argument parsing, before *)
(* any probe, subprocess or directory operation, with exit status 2 -      *)
(* unless --help is on the command line too, when the status is 0 if       *)
(* --help comes first.                                                     *)
C12_InvalidValueEndsInParsing ==
    ~ValidArgs(argv) =>
      /\ pc \in {"parse", "done"}
      /\ log = << >>
      /\ completed = << >>
      /\ self = InitSelf
      /\ Terminated => \/ exit_code = 2 /\ failed = 1 /\ cause = "usage"
                       \/ exit_code = 0 /\ argv.help

C12_Witness ==
    /\ argv.arch = "arm64"
    /\ argv.compiler = 17
    /\ ~argv.help
    /\ Terminated
    /\ exit_code = 2
    /\ log = << >>


(* The tree after the filesystem operations of ops, and nothing else, have *)
(* been applied to it.                                                     *)
RECURSIVE ApplyOps(_, _)
ApplyOps(tree, ops) ==
    IF ops = << >> THEN tree
    ELSE LET e == Head(ops)
             t == CASE e.kind = "rmtree" -> tree \ Below(e.target)
                    [] e.kind = "mkdir"  -> tree \cup {e.target, "build"}
                    [] OTHER             -> tree
         IN  ApplyOps(t, Tail(ops))

Added == SubSeq(log', Len(log) + 1, Len(log'))
Interrupted(q) == \E i \in DOMAIN q : q[i].rc = "interrupt"

(* C13: an interrupt during a subprocess call of any stage, the version    *)
(* probes included, ends the run there with a non-zero status: the         *)
(* interrupted call is the last operation, no step follows it, and the     *)
(* tree is left as the operations made so far have left it.                *)
C13_InterruptEndsRun ==
    [][ /\ Interrupted(log) => UNCHANGED vars
        /\ Interrupted(log') /\ ~Interrupted(log) =>
             /\ SubSeq(log', 1, Len(log)) = log
             /\ Added[Len(Added)].kind = "run"
             /\ Added[Len(Added)].rc = "interrupt"
             /\ \A i \in 1..(Len(Added) - 1) : Added[i].kind # "run"
             /\ pc' = "done"
             /\ exit_code' > 0
             /\ cause' = "interrupt"
             /\ completed' = completed
             /\ fs' = ApplyOps(fs, Added)
      ]_vars

C13_Witness ==
    /\ Terminated
    /\ Interrupted(log)
    /\ failed = 5
    /\ \E e \in StageOps(5) : e.kind = "rmtree"
    /\ "build/build_win" \in fs
    /\ exit_code = 1

(* C14: the fallback locations are tried in the order of the list; when    *)
(* conan is not on the search path and the prerequisite check succeeds,    *)
(* conan_path is the first location that exists and answers the version    *)
(* query, and no location after it has been looked at.                     *)
IsFallbackTest(e) == e.stage = 3 /\ e.kind = "exists"
IsFallbackQuery(e) == e.stage = 3 /\ e.kind = "run" /\ e.target \in Range(conan_paths)

FirstWorking ==
    CHOOSE k \in FallbackIdx :
        env.fallback[k] = "ok" /\ \A j \in 1..(k - 1) : env.fallback[j] # "ok"

C14_FirstFoundWins ==
    LET tests   == SelectSeq(log, IsFallbackTest)
        queries == SelectSeq(log, IsFallbackQuery)
    IN  /\ Len(tests) <= Len(conan_paths)
        /\ \A i \in DOMAIN tests : tests[i].target = conan_paths[i]
        /\ Len(completed) >= 3 /\ self.use_conan /\ env.conan # "ok" =>
             /\ \E k \in FallbackIdx : env.fallback[k] = "ok"
             /\ self.conan_path = conan_paths[FirstWorking]
             /\ Len(tests) = FirstWorking
             /\ queries # << >>
             /\ \A i \in DOMAIN queries :
                  IF i = Len(queries)
                  THEN queries[i].rc = "ok" /\ queries[i].target = self.conan_path
                  ELSE queries[i].rc = "error"

C14_Witness ==
    /\ Len(completed) >= 3
    /\ self.use_conan
    /\ env.conan = "notfound"
    /\ env.fallback = << "broken", "ok", "ok" >>
    /\ self.conan_path = conan_paths[2]


(* C15: from the end of setup_environment to the exit, the derived fields  *)
(* are the values that architecture and compiler_version determine, and    *)
(* the configuration fields stay what the command line made them; the      *)
(* constructor's defaults are the derived values of its default enums.     *)
ByArch(arch) ==
    IF arch = "x86"
    THEN << "install_x86", "-A Win32", "-s:a arch=x86", "--x86" >>
    ELSE << "install_x86_64", "-A x64", "", "" >>

ByCompiler(ver) ==
    IF ver = 16
    THEN << "Visual Studio 16 2019", "vc16", "" >>
    ELSE << "Visual Studio 17 2022", "vc17", "-s:a compiler.version=193" >>

DerivedFields(s) ==
    << << s.install_dir, s.set_architecture, s.conan_set_arch, s.onnxruntime_flags >>,
       << s.generator, s.vs_version, s.compiler_flags >> >>

C15_DerivedFromEnums ==
    /\ DerivedFields(self) = << ByArch(self.architecture), ByCompiler(self.compiler_version) >>
         \/ pc = "setup"
    /\ pc = "parse" =>
         /\ self.architecture = "x64"
         /\ self.compiler_version = 16
    /\ Len(completed) >= 1 =>
         /\ self.architecture = argv.arch
         /\ self.compiler_version = argv.compiler
         /\ self.config = (IF argv.debug THEN "Debug" ELSE "Release")
         /\ self.use_conan = ~argv.no_conan
         /\ self.download = ~argv.no_download
         /\ self.skip_deps = argv.skip_deps

C15_Witness ==
    /\ Terminated
    /\ completed = AllStages
    /\ self.architecture = "x86"
    /\ self.compiler_version = 17
    /\ self.config = "Debug"
    /\ self.conan_path = "conan"

(* C16: when the generator is started build/build_win exists and holds     *)
(* nothing from before the run: a directory found there was removed and a  *)
(* new one made first; when "conan install" is started a build/conan found *)
(* there has been removed.                                                 *)
IsRemoval(e, d) == e.kind = "rmtree" /\ e.target = d
IsCreation(e, d) == e.kind = "mkdir" /\ e.target = d

C16_FreshDirectories ==
    [][ \A i \in DOMAIN Added :
          /\ IsCommand(Added[i], 5) =>
               /\ "build/build_win" \in fs'
               /\ \E m \in 1..(i - 1) :
                    /\ IsCreation(Added[m], "build/build_win")
                    /\ "build/build_win" \in fs =>
                         \E r \in 1..(m - 1) : IsRemoval(Added[r], "build/build_win")
                    /\ \A r \in (m + 1)..(i - 1) : Added[r].kind \notin {"rmtree", "mkdir"}
          /\ IsCommand(Added[i], 4) /\ Added[i].args[1] = "install" =>
               /\ "build/conan" \in fs =>
                    \E r \in 1..(i - 1) : IsRemoval(Added[r], "build/conan")
               /\ \A r \in 1..(i - 1) : ~IsCreation(Added[r], "build/conan")
      ]_vars

C16_Witness ==
    /\ \E e \in StageOps(4) : IsRemoval(e, "build/conan")
    /\ \E e \in StageOps(4) : e.kind = "run" /\ e.args[1] = "install"
    /\ \E e \in StageOps(5) : IsRemoval(e, "build/build_win")
    /\ \E e \in StageOps(5) : e.kind = "run"

(* C17: the step in which a stage fails leaves the tree as the operations  *)
(* made before the failure have left it - a build/conan removed stays      *)
(* removed, a build/build_win made anew is there - and no step follows it. *)
C17_NoCleanupOnFailure ==
    [][ /\ failed # 0 => UNCHANGED vars
        /\ failed' # 0 /\ failed = 0 =>
             /\ fs' = ApplyOps(fs, Added)
             /\ (\E i \in DOMAIN Added : IsRemoval(Added[i], "build/conan"))
                  => "build/conan" \notin fs'
             /\ (\E i \in DOMAIN Added : IsCreation(Added[i], "build/build_win"))
                  => "build/build_win" \in fs'
             /\ \A d \in fs \ fs' : \E i \in DOMAIN Added : IsRemoval(Added[i], d)
             /\ \A d \in fs' \ fs : \E i \in DOMAIN Added :
                    IsCreation(Added[i], d) \/ IsCreation(Added[i], d \o "/build_win")
      ]_vars

C17_Witness ==
    /\ Terminated
    /\ failed = 5
    /\ cause = "subprocess"
    /\ \E e \in StageOps(5) : IsRemoval(e, "build/build_win")
    /\ \E e \in StageOps(4) : IsRemoval(e, "build/conan")
    /\ "build/build_win" \in fs


(* C18: every command that is told a generator is told the one derived     *)
(* from compiler_version: the OpenCV and GoogleTest configure commands,    *)
(* the ONNX Runtime build and the configure command of the project.        *)
TakesGenerator(e) ==
    e.kind = "run" /\ (e.args[1] = "configure" \/ e.target = "build.bat")

GeneratorFor(ver) ==
    IF ver = 16 THEN "Visual Studio 16 2019" ELSE "Visual Studio 17 2022"

C18_DerivedGeneratorEverywhere ==
    \A e \in Range(log) :
        TakesGenerator(e) => e.args[3] = GeneratorFor(self.compiler_version)

(* C19: "conan install" is run with a path that check_prerequisites        *)
(* assigned in this run and whose version query succeeded; once the check  *)
(* has passed, conan_path is assigned and names no location whose query    *)
(* failed.                                                                 *)
IsConanInstall(e) == e.stage = 4 /\ e.kind = "run" /\ e.args[1] = "install"
Answered(q, p, rc) ==
    \E j \in DOMAIN q : q[j].stage = 3 /\ q[j].kind = "run" /\ q[j].target = p
                        /\ q[j].rc = rc

C19_InstallUsesCheckedConan ==
    /\ \A i \in DOMAIN log :
         IsConanInstall(log[i]) =>
           /\ log[i].target # "unset"
           /\ log[i].target = self.conan_path
           /\ Answered(SubSeq(log, 1, i - 1), log[i].target, "ok")
           /\ ~Answered(log, log[i].target, "error")
    /\ Len(completed) >= 3 /\ self.use_conan =>
         /\ self.conan_path # "unset"
         /\ Answered(log, self.conan_path, "ok")
         /\ ~Answered(log, self.conan_path, "error")
    /\ Len(completed) >= 1 /\ ~self.use_conan =>
         /\ self.conan_path = "unset"
         /\ \A e \in Range(log) : ~IsConanInstall(e)

C19_Witness ==
    /\ env.conan = "error"
    /\ env.fallback = << "broken", "absent", "ok" >>
    /\ \E e \in Range(log) : IsConanInstall(e) /\ e.target = conan_paths[3] /\ e.rc = "ok"

=============================================================================
